---- MODULE Spec2Model ----
(***************************************************************************)
(* MIDAS engine (Programs/Python/MIDAS/engine.py): agents in a bounded     *)
(* arena, advanced by a CUDA kernel over two device buffer pairs.          *)
(*                                                                         *)
(* Units.  Lengths and velocity components are integers in thousandths of  *)
(* the source's unit (0.999 is 999, the default speed 0.01 is 10).  Angles *)
(* are whole quarter turns, so that the rotation zv*exp(1j*angle) is exact *)
(* on the integer lattice.  A noise coefficient is in tenths (the source's *)
(* 0.1 is 1) and a normal sample is a whole number of quarter turns per    *)
(* tenth.  Python index k of an array is index k+1 of the sequence that    *)
(* models it.                                                              *)
(***************************************************************************)
EXTENDS Integers, Sequences, FiniteSets, TLC

VARIABLES
  geom,      \* Engine.geom: dimension, arena, arena_shape, periodic
  agents,    \* Engine.agents: the host arrays
  steps,     \* Engine.steps: the step budget, or NoBudget for None
  animation, \* Engine.animation
  cuda,      \* Engine.cuda: launch geometry, device arrays, RNG states
  pc,        \* where the driver is: setup, loop, kernel, synced, done
  i,         \* the loop variable of Engine.run, the argument of Engine.step
  kernel,    \* the launch in flight: buffer binding, finished lanes, accesses
  shadow,    \* per slot of the position/velocity arrays: how its value came about
  hist,      \* history: initial state, dispatched steps, published states
  probe      \* a single call of assign_2d: its arguments and what it returned

vars == <<geom, agents, steps, animation, cuda, pc, i, kernel, shadow, hist, probe>>

None == "None"

\* Engine.steps is None (an unbounded run), encoded as a number no budget uses
NoBudget == 0 - 1

-----------------------------------------------------------------------------
\* Bounds of the model

\* candidate coordinates given to a single call of assign_2d in a circular
\* arena: -MaxCircCoord..MaxCircCoord
MaxCircCoord == 12
\* most calls of add_group in a set-up
MaxCalls == 2
\* the calls of step that the animation clock makes
MaxUpdates == 2
\* most agents an engine holds
MaxAgents == 2
\* largest finite step budget; an unbounded run is followed this many steps
MaxSteps == 2
\* the generator's states are 0..RngPeriod-1
RngPeriod == 3
\* candidate coordinates given to a single call of assign_2d: -MaxCoord..MaxCoord
MaxCoord == 5
\* half-extents given to a single call of assign_2d: 1..MaxHalfExtent
MaxHalfExtent == 2
\* velocity components given to a single call of assign_2d: -MaxSpeed..MaxSpeed
MaxSpeed == 1

-----------------------------------------------------------------------------
\* Program constants

\* Geometry.__init__ is given dimension 2 (Engine.__init__'s default)
dimension == 2
\* the default initial_condition speed, 0.01
speed == 10
\* add_group: noise[:,0] = 0
vnoise == 0
\* add_group: noise[:,1] = 0.1
anoise == 1
\* run: self.cuda.blockDim = 32
blockDim == 32
\* run: create_xoroshiro128p_states(..., seed=0)
seed == 0

\* Agents.atypes
atypes == <<"fixed", "blind", "ripo", "rinno">>

\* as index, but counting from one
index_from_one(s, x) == CHOOSE k \in 1..Len(s) : s[k] = x /\ \A j \in 1..(k-1) : s[j] # x

\* list.index: the Python index of the first occurrence of x in s
index(s, x) == (CHOOSE k \in 1..Len(s) : s[k] = x /\ \A j \in 1..(k-1) : s[j] # x) - 1

\* str.lower on the type names a caller passes
lower(s) ==
  CASE s = "Fixed" -> "fixed"
    [] s = "Blind" -> "blind"
    [] s = "RIPO"  -> "ripo"
    [] s = "RINNO" -> "rinno"
    [] OTHER       -> s

InSeq(s, x) == \E k \in 1..Len(s) : s[k] = x

\* N copies of x: x*np.ones(N)
ones(N, x) == [k \in 1..N |-> x]

-----------------------------------------------------------------------------
\* Inputs of the driver script

\* Geometry keyword arguments: shape (full extents) and per-axis periodicity
ShapeChoices == {<<2000, 2000>>}
PeriodicChoices == {<<TRUE, FALSE>>, <<FALSE, TRUE>>}
TypeChoices == {"fixed", "blind", "ripo"}
StepsChoices == {1, MaxSteps, NoBudget}
NoiseChoices == {0}

\* What the register of a never-assigned angle can hold, in quarter turns (the
\* outcomes the model follows)
UndefAngles == {0, 1}

\* Outcomes of np.random.rand the model follows, per axis, in units of
\* 1/2000: u in [0, 1) is one of 0..1999
UniformSample == {<<1999, 1000>>}

\* Outcomes of the random unit direction the model follows
DirectionSample == {<<1, 0>>}

\* The same outcomes for an engine of any dimension
UniformDraws(dim) == {[d \in 1..dim |-> IF d = 1 THEN 1999 ELSE 1000]}
DirectionDraws(dim) == {[d \in 1..dim |-> IF d = 1 THEN 1 ELSE 0]}

\* Calls of add_group with any arguments: the dimensions of the engine, the
\* type names, and the initial conditions a caller passes: explicit arrays of
\* N rows, of the engine's dimension or of one component more, with and
\* without a speed, and the group names: one of its own, and one that is
\* also a type string
DimensionChoices == {1, 2, 3}
TypeCallChoices == {"blind", "Fixed", "robot"}
PositionRows(N, w) == [k \in 1..N |-> [d \in 1..w |-> 100 * k + d]]
VelocityRows(N, w) == [k \in 1..N |-> [d \in 1..w |-> IF d = 1 THEN 0 - 5 * k ELSE 0]]
ConditionChoices(N, dim) ==
  {[position |-> [kind |-> "array", rows |-> PositionRows(N, w[1])],
    velocity |-> [kind |-> "array", rows |-> VelocityRows(N, w[2])],
    speed    |-> speed] :
     w \in {<<dim, dim>>, <<dim + 1, dim>>, <<dim, dim + 1>>}}
  \cup {[position |-> [kind |-> "array", rows |-> PositionRows(N, dim)],
         velocity |-> [kind |-> "array", rows |-> VelocityRows(N, dim)]]}
NameChoices == {"swarm", "blind"}
KwargsChoices(N, dim) ==
  {<<>>}
  \cup {[name |-> n] : n \in NameChoices}
  \cup {[initial_condition |-> ic] : ic \in ConditionChoices(N, dim)}
  \cup {[initial_condition |-> ic, IC |-> ic] : ic \in ConditionChoices(N, dim)}

-----------------------------------------------------------------------------
\* Geometry

\* Geometry.set_initial_positions, rectangular arena: the positions the draw
\* can give, (u - 1/2)*arena_shape[d] on every axis
set_initial_positions(g, u) ==
  [d \in 1..g.dimension |-> ((u[d] - 1000) * g.arena_shape[d]) \div 2000]

\* Geometry.set_initial_velocities: speed times a unit direction
set_initial_velocities(g, sp, dir) ==
  [d \in 1..g.dimension |-> sp * dir[d]]

-----------------------------------------------------------------------------
\* Construction

\* Agents.__init__
NewAgents ==
  [N_agents |-> 0, atype |-> <<>>, pos |-> <<>>, vel |-> <<>>, noise |-> <<>>,
   N_groups |-> 0, group_names |-> <<>>, group |-> <<>>]

\* CUDA.__init__
NewCUDA ==
  [blockDim |-> None, gridDim |-> None, param |-> None,
   p0 |-> None, v0 |-> None, p1 |-> None, v1 |-> None,
   atype |-> None, noise |-> None, group |-> None, rng |-> None]

NoKernel == [src |-> None, dst |-> None, done |-> {}, idle |-> FALSE,
             da |-> <<>>, pre |-> None]

NewShadow == [pos |-> <<>>, vel |-> <<>>, p0 |-> <<>>, v0 |-> <<>>,
              p1 |-> <<>>, v1 |-> <<>>]

\* the set-up under way: the number of add_group calls made, and the last
\* one: its arguments, the error it raised and the line that raised it
NoSetup == [calls |-> 0, gtype |-> None, N |-> 0, kwargs |-> <<>>,
            raised |-> None, line |-> 0]

\* pos, vel: the arrays uploaded by run; dispatched: the step indices launched;
\* finished: per launch, the agents' lanes that have returned; published: the
\* number of copies to the host; run, trace: the execution (1 or 2) and what
\* execution 1 published after each step; setup: the set-up, until run starts
NewHist == [pos |-> <<>>, vel |-> <<>>, dispatched |-> <<>>, finished |-> <<>>,
            published |-> 0, run |-> 1, trace |-> <<>>, setup |-> NoSetup]

NoProbe == [args |-> <<>>, out |-> <<>>]

\* Engine.__init__ with Geometry.__init__ for a rectangular arena
Init ==
  /\ \E sh \in ShapeChoices, per \in PeriodicChoices :
       geom = [dimension |-> dimension, arena |-> "rectangular",
               arena_shape |-> sh, periodic |-> per]
  /\ agents = NewAgents
  /\ steps = 1
  /\ animation = None
  /\ cuda = NewCUDA
  /\ pc = "setup"
  /\ i = 0
  /\ kernel = NoKernel
  /\ shadow = NewShadow
  /\ hist = NewHist
  /\ probe = NoProbe

-----------------------------------------------------------------------------
\* Setup

\* as concatenate, but the new block goes in front
concatenate_front(a, b) == b \o a

\* np.concatenate((a, b), axis=0) of two arrays whose rows have one width
concatenate(a, b) == a \o b

\* Values of the keys of an initial_condition: None, or an explicit array
\* [kind |-> "array", rows |-> its rows]
NoneValue == [kind |-> "None", rows |-> <<>>]

\* the default initial_condition of add_group
DefaultCondition == [position |-> NoneValue, velocity |-> NoneValue, speed |-> speed]

\* np.concatenate accepts a block of rows under an array of the engine's
\* dimension when the rows have that many components
Fits(rows, dim) == \A k \in 1..Len(rows) : Len(rows[k]) = dim

\* Engine.add_group(gtype, N, **kwargs): the agents after the call and the
\* error it raised, if any, with the line that raised it.  kwargs is the
\* dictionary of the keyword arguments passed; us, dirs are the draws of the
\* geometry for the positions and velocities that are not given.
add_group(gtype, N, kwargs, us, dirs) ==
  LET \* Group name
      gname == IF "name" \in DOMAIN kwargs THEN kwargs["name"] ELSE gtype
      \* User definition
      given == "initial_condition" \in DOMAIN kwargs
      initial_condition == IF given THEN kwargs["IC"] ELSE DefaultCondition
      \* Positions
      pos   == IF initial_condition.position.kind # "array"
               THEN [k \in 1..N |-> set_initial_positions(geom, us[k])]
               ELSE initial_condition.position.rows
      \* Velocities
      vel   == IF initial_condition.velocity.kind # "array"
               THEN [k \in 1..N |->
                       set_initial_velocities(geom, initial_condition.speed, dirs[k])]
               ELSE initial_condition.velocity.rows
      \* Noise
      noise == ones(N, <<vnoise, anoise>>)
      \* Agents definition
      a1    == [agents EXCEPT !.N_agents = @ + N]
      a2    == [a1 EXCEPT !.atype = concatenate(@, ones(N, index(atypes, lower(gtype))))]
      a3    == [a2 EXCEPT !.pos = concatenate(@, pos)]
      a4    == [a3 EXCEPT !.vel = concatenate(@, vel)]
      a5    == [a4 EXCEPT !.noise = concatenate(@, noise)]
      \* Groups
      known == InSeq(agents.group_names, gname)
      iname == IF known THEN index(agents.group_names, gname)
               ELSE Len(agents.group_names)
      a6    == [a5 EXCEPT
                  !.N_groups    = IF known THEN @ ELSE @ + 1,
                  !.group_names = IF known THEN @ ELSE Append(@, gname),
                  !.group       = concatenate(@, ones(N, iname))]
      raise(a, error, line) == [agents |-> a, raised |-> error, line |-> line]
  IN  IF given /\ "IC" \notin DOMAIN kwargs
        THEN raise(agents, "KeyError", 189)
      ELSE IF "speed" \notin DOMAIN initial_condition
        THEN raise(agents, "KeyError", 203)
      ELSE IF ~InSeq(atypes, lower(gtype))
        THEN raise(a1, "ValueError", 222)
      ELSE IF ~Fits(pos, geom.dimension)
        THEN raise(a2, "ValueError", 225)
      ELSE IF ~Fits(vel, geom.dimension)
        THEN raise(a3, "ValueError", 226)
      ELSE IF ~Fits(noise, geom.dimension)
        THEN raise(a4, "ValueError", 229)
      ELSE raise(a6, None, 0)

\* a call of add_group made from the set-up: the agents and the record of
\* the call
Call(gtype, N, kwargs, us, dirs) ==
  LET r == add_group(gtype, N, kwargs, us, dirs)
  IN  /\ agents' = r.agents
      /\ shadow' = [shadow EXCEPT
                      !.pos = @ \o ones(Len(r.agents.pos) - Len(agents.pos), "ok"),
                      !.vel = @ \o ones(Len(r.agents.vel) - Len(agents.vel), "ok")]
      /\ hist' = [hist EXCEPT !.setup =
                    [calls |-> @.calls + 1, gtype |-> gtype, N |-> N,
                     kwargs |-> kwargs, raised |-> r.raised, line |-> r.line]]

\* add_group(gtype, N) with a known type and no keyword argument
AddGroup ==
  /\ pc = "setup"
  /\ hist.setup.calls < MaxCalls
  /\ \A k \in 1..Len(agents.noise) : agents.noise[k] = <<vnoise, anoise>>
  /\ \E gtype \in TypeChoices, N \in 1..MaxAgents :
       /\ agents.N_agents + N <= MaxAgents
       /\ \E us \in [1..N -> UniformSample], dirs \in [1..N -> DirectionSample] :
            Call(gtype, N, <<>>, us, dirs)
  /\ UNCHANGED <<geom, steps, animation, cuda, pc, i, kernel, probe>>

\* add_group with any arguments
AddGroupCall ==
  /\ pc = "setup"
  /\ hist.setup.calls < MaxCalls
  /\ \E gtype \in TypeCallChoices, N \in 1..MaxAgents :
       /\ agents.N_agents + N <= MaxAgents
       /\ \E kwargs \in KwargsChoices(N, geom.dimension),
             us \in [1..N -> UniformDraws(geom.dimension)],
             dirs \in [1..N -> DirectionDraws(geom.dimension)] :
            Call(gtype, N, kwargs, us, dirs)
  /\ UNCHANGED <<geom, steps, animation, cuda, pc, i, kernel, probe>>

\* The driver script sets the step budget: engine.steps = S
SetSteps ==
  /\ pc = "setup"
  /\ \E S \in StepsChoices : steps' = S
  /\ UNCHANGED <<geom, agents, animation, cuda, pc, i, kernel, shadow, hist, probe>>

\* The driver script sets the angular noise coefficients: agents.noise[:,1] = c
SetNoise ==
  /\ pc = "setup"
  /\ agents.N_agents > 0
  /\ \E c \in NoiseChoices :
       agents' = [agents EXCEPT !.noise = [k \in 1..Len(@) |-> <<@[k][1], c>>]]
  /\ UNCHANGED <<geom, steps, animation, cuda, pc, i, kernel, shadow, hist, probe>>

-----------------------------------------------------------------------------
\* The random number generator (numba.cuda.random), one state per lane

\* create_xoroshiro128p_states(n, seed): the state of lane l derives from the
\* seed and l
create_xoroshiro128p_states(n, sd) == [l \in 1..n |-> (sd + l - 1) % RngPeriod]

\* xoroshiro128p_normal_float32: the sample a state gives, and the state after
normal_sample(st) == (st % 3) - 1
normal_next(st) == (st + 1) % RngPeriod

-----------------------------------------------------------------------------
\* Device functions

\* zv * cmath.exp(1j*angle), the angle in quarter turns
rotate(zv, angle) ==
  CASE angle % 4 = 0 -> zv
    [] angle % 4 = 1 -> <<0 - zv[2], zv[1]>>
    [] angle % 4 = 2 -> <<0 - zv[1], 0 - zv[2]>>
    [] angle % 4 = 3 -> <<zv[2], 0 - zv[1]>>

\* as rect_first_dimension, but a periodic axis shifts by the half-extent
\* instead of the diameter
rect_first_dimension_half_shift(z1, zv, arena_X, periodic_X) ==
  IF periodic_X # 0
  THEN <<IF z1[1] > arena_X THEN z1[1] - arena_X
         ELSE IF z1[1] < 0 - arena_X THEN z1[1] + arena_X
         ELSE z1[1],
         zv[1]>>
  ELSE IF z1[1] > arena_X THEN <<2 * arena_X - z1[1], 0 - zv[1]>>
       ELSE IF z1[1] < 0 - arena_X THEN <<0 - 2 * arena_X - z1[1], 0 - zv[1]>>
       ELSE <<z1[1], zv[1]>>

\* assign_2d, rectangular arena, first dimension: <<px, vx>>
rect_first_dimension(z1, zv, arena_X, periodic_X) ==
  IF periodic_X # 0
  THEN <<IF z1[1] > arena_X THEN z1[1] - 2 * arena_X
         ELSE IF z1[1] < 0 - arena_X THEN z1[1] + 2 * arena_X
         ELSE z1[1],
         zv[1]>>
  ELSE IF z1[1] > arena_X THEN <<2 * arena_X - z1[1], 0 - zv[1]>>
       ELSE IF z1[1] < 0 - arena_X THEN <<0 - 2 * arena_X - z1[1], 0 - zv[1]>>
       ELSE <<z1[1], zv[1]>>

\* as rect_second_dimension, but the lower reflective bound keeps the
\* velocity component
rect_second_dimension_keep_velocity(z1, zv, arena_Y, periodic_Y) ==
  IF periodic_Y # 0
  THEN <<IF z1[2] > arena_Y THEN z1[2] - 2 * arena_Y
         ELSE IF z1[2] < 0 - arena_Y THEN z1[2] + 2 * arena_Y
         ELSE z1[2],
         zv[2]>>
  ELSE IF z1[2] > arena_Y THEN <<2 * arena_Y - z1[2], 0 - zv[2]>>
       ELSE IF z1[2] < 0 - arena_Y THEN <<0 - 2 * arena_Y - z1[2], zv[2]>>
       ELSE <<z1[2], zv[2]>>

\* assign_2d, rectangular arena, second dimension: <<py, vy>>
rect_second_dimension(z1, zv, arena_Y, periodic_Y) ==
  IF periodic_Y # 0
  THEN <<IF z1[2] > arena_Y THEN z1[2] - 2 * arena_Y
         ELSE IF z1[2] < 0 - arena_Y THEN z1[2] + 2 * arena_Y
         ELSE z1[2],
         zv[2]>>
  ELSE IF z1[2] > arena_Y THEN <<2 * arena_Y - z1[2], 0 - zv[2]>>
       ELSE IF z1[2] < 0 - arena_Y THEN <<0 - 2 * arena_Y - z1[2], 0 - zv[2]>>
       ELSE <<z1[2], zv[2]>>

\* The circular arena works in polar form.  There an angle is the unit complex
\* number exp(1j*angle), kept as [c, s, n] for (c + 1j*s)/n with c*c + s*s =
\* n*n, so that sums of angles are exact; a root or a quotient is the source's
\* value on the arguments where that value is a whole number.

\* the integer square root
isqrt(n) == CHOOSE r \in 0..n : r * r <= n /\ (r + 1) * (r + 1) > n

\* abs(z) of a complex number
abs(z) == isqrt(z[1] * z[1] + z[2] * z[2])

\* cmath.phase(z); the phase of 0 is 0
phase(z) ==
  IF z = <<0, 0>> THEN [c |-> 1, s |-> 0, n |-> 1]
  ELSE [c |-> z[1], s |-> z[2], n |-> abs(z)]

\* cmath.pi as an angle
pi == [c |-> 0 - 1, s |-> 0, n |-> 1]

\* the sum of two angles, and the opposite of an angle
plus(a, b) == [c |-> a.c * b.c - a.s * b.s, s |-> a.s * b.c + a.c * b.s, n |-> a.n * b.n]
minus(a) == [c |-> a.c, s |-> 0 - a.s, n |-> a.n]

\* math.asin(num/den): the angle of sine num/den and cosine >= 0
asin(num, den) == [c |-> isqrt(den * den - num * num), s |-> num, n |-> den]

\* cmath.rect(r, a)
rect(r, a) == <<(r * a.c) \div a.n, (r * a.s) \div a.n>>

\* z * cmath.exp(1j*a)
times_exp(z, a) ==
  <<(z[1] * a.c - z[2] * a.s) \div a.n, (z[1] * a.s + z[2] * a.c) \div a.n>>

\* as circ_periodic, but the phase is kept
circ_periodic_same_phase(z1, arena_X) ==
  rect(2 * arena_X - abs(z1), phase(z1))

\* assign_2d, circular arena, periodic: the new z1 of an outsider
circ_periodic(z1, arena_X) ==
  rect(2 * arena_X - abs(z1), plus(phase(z1), pi))

\* as circ_reflexive, but the velocity is turned by 2*(phase(zv) - phi) only
circ_reflexive_no_turn(z0, z1, zv, arena_X) ==
  LET th  == phase(zv)
      phi == plus(th, asin(z0[2] * th.c - z0[1] * th.s, th.n * arena_X))
      zc  == rect(arena_X, phi)
      d   == abs(zv) - abs(<<zc[1] - z0[1], zc[2] - z0[2]>>)
      w   == times_exp(<<d, 0>>, plus(pi, plus(plus(phi, phi), minus(th))))
  IN  <<<<zc[1] + w[1], zc[2] + w[2]>>,
        times_exp(zv, plus(minus(plus(phi, phi)), plus(th, th)))>>

\* assign_2d, circular arena, reflexive: the new <<z1, zv>> of an outsider
circ_reflexive(z0, z1, zv, arena_X) ==
  LET th  == phase(zv)
      \* Crossing point
      phi == plus(th, asin(z0[2] * th.c - z0[1] * th.s, th.n * arena_X))
      zc  == rect(arena_X, phi)
      \* Position
      d   == abs(zv) - abs(<<zc[1] - z0[1], zc[2] - z0[2]>>)
      w   == times_exp(<<d, 0>>, plus(pi, plus(plus(phi, phi), minus(th))))
  IN  <<<<zc[1] + w[1], zc[2] + w[2]>>,
        \* Velocity
        times_exp(zv, plus(pi, plus(plus(phi, phi), minus(plus(th, th)))))>>

\* as assign_2d, but in the rectangular arena the second dimension is looked
\* at only when the first one is within bounds
assign_2d_second_skipped(z0, z1, zv, arena, arena_X, arena_Y, periodic_X, periodic_Y) ==
  CASE arena = 0 ->
    LET r == IF z1[1] * z1[1] + z1[2] * z1[2] > arena_X * arena_X
             THEN IF periodic_X # 0
                  THEN <<circ_periodic(z1, arena_X), zv>>
                  ELSE circ_reflexive(z0, z1, zv, arena_X)
             ELSE <<z1, zv>>
    IN  <<r[1][1], r[1][2], r[2][1], r[2][2]>>
    [] arena = 1 ->
    LET X == rect_first_dimension(z1, zv, arena_X, periodic_X)
        Y == IF z1[1] > arena_X \/ z1[1] < 0 - arena_X
             THEN <<z1[2], zv[2]>>
             ELSE rect_second_dimension(z1, zv, arena_Y, periodic_Y)
    IN  <<X[1], Y[1], X[2], Y[2]>>

\* assign_2d; z = <<real, imag>>; returns <<px, py, vx, vy>>
assign_2d(z0, z1, zv, arena, arena_X, arena_Y, periodic_X, periodic_Y) ==
  CASE arena = 0 ->
    \* Check for outsiders: abs(z1) > arena_X, compared on the squares
    LET r == IF z1[1] * z1[1] + z1[2] * z1[2] > arena_X * arena_X
             THEN IF periodic_X # 0
                  THEN <<circ_periodic(z1, arena_X), zv>>
                  ELSE circ_reflexive(z0, z1, zv, arena_X)
             ELSE <<z1, zv>>
    IN  <<r[1][1], r[1][2], r[2][1], r[2][2]>>
    [] arena = 1 ->
    LET X == rect_first_dimension(z1, zv, arena_X, periodic_X)
        Y == rect_second_dimension(z1, zv, arena_Y, periodic_Y)
    IN  <<X[1], Y[1], X[2], Y[2]>>

-----------------------------------------------------------------------------
\* The CUDA kernel

\* the position and velocity arrays of buffer pair b (0: p0/v0, 1: p1/v1)
BufP(c, b) == IF b = 0 THEN c.p0 ELSE c.p1
BufV(c, b) == IF b = 0 THEN c.v0 ELSE c.v1

\* c with row k of pair b's position (velocity) array set
PutP(c, b, k, row) ==
  IF b = 0 THEN [c EXCEPT !.p0[k] = row] ELSE [c EXCEPT !.p1[k] = row]
PutV(c, b, k, row) ==
  IF b = 0 THEN [c EXCEPT !.v0[k] = row] ELSE [c EXCEPT !.v1[k] = row]

\* the number of lanes of a launch
Lanes(c) == c.gridDim * c.blockDim

\* as grid, but every lane after the first takes the index of the lane before
grid_shifted(l) == IF l > 0 THEN l - 1 ELSE l

\* i = cuda.grid(1): the index a lane works on is its own position in the grid
grid(l) == l

\* the value the kernel finds in da: set to 0 for a Blind agent, and left
\* unassigned for any other type (u: what the unassigned register holds)
da_value(atype_l, u) == IF atype_l = 1 THEN 0 ELSE u

\* CUDA_step for lane l (Python index) with source pair src and destination
\* pair dst: the device state after the lane has run
CUDA_step(c, l, src, dst, u) ==
  IF grid(l) < Len(BufP(c, src))
  THEN LET k  == grid(l) + 1
           \* Fixed points
           c1 == IF c.atype[k] = 0 THEN PutP(c, dst, k, BufP(c, src)[k]) ELSE c
           \* Deserialization of the parameters
           arena      == c1.param[1]
           arena_X    == c1.param[2]
           arena_Y    == c1.param[3]
           periodic_X == c1.param[4]
           periodic_Y == c1.param[5]
           zv0 == BufV(c1, src)[k]
           da  == da_value(c1.atype[k], u)
           \* Angular noise
           an  == c1.noise[k][2] * normal_sample(c1.rng[k])
           c2  == [c1 EXCEPT !.rng[k] = normal_next(@)]
           \* Reorient
           zv  == rotate(zv0, da + an)
           \* Candidate position and velocity
           z0  == BufP(c2, src)[k]
           z1  == <<z0[1] + zv[1], z0[2] + zv[2]>>
           \* Boundary conditions
           r   == assign_2d(z0, z1, zv, arena, arena_X, arena_Y, periodic_X, periodic_Y)
           \* Update: match dim has case 2 only
       IN  IF Len(BufP(c, src)[k]) = 2
           THEN PutV(PutP(c2, dst, k, <<r[1], r[2]>>), dst, k, <<r[3], r[4]>>)
           ELSE c2
  ELSE c

\* lanes m, m+1, ..., n-1 run one after the other (none of them an agent's):
\* the device state after them
RunLanes(c, m, n, src, dst) ==
  LET after[l \in m..n] ==
        IF l = m THEN c
        ELSE CHOOSE r \in {CUDA_step(x, l - 1, src, dst, 0) : x \in {after[l - 1]}} : TRUE
  IN  after[n]

-----------------------------------------------------------------------------
\* Engine.run and Engine.step

\* run: what cuda.device_array leaves in p1 and v1 (allocated, never written):
\* whatever the memory held
GarbageChoices == {[p |-> <<0, 0>>, v |-> <<0, 0>>],
                   [p |-> <<5000, 0 - 990>>, v |-> <<0, 0 - 25>>]}

\* run: parameter serialization, dimension 2
param_2d(g) ==
  <<IF g.arena = "circular" THEN 0 ELSE 1,
    g.arena_shape[1] \div 2,
    g.arena_shape[2] \div 2,
    IF g.arena = "circular" THEN (IF g.periodic THEN 1 ELSE 0)
    ELSE (IF g.periodic[1] THEN 1 ELSE 0),
    IF g.arena = "circular" THEN (IF g.periodic THEN 1 ELSE 0)
    ELSE (IF g.periodic[2] THEN 1 ELSE 0)>>

\* run: parameter serialization, dimension 1
param_1d(g) ==
  <<IF g.arena = "circular" THEN 0 ELSE 1,
    g.arena_shape[1] \div 2,
    IF g.arena = "circular" THEN (IF g.periodic THEN 1 ELSE 0)
    ELSE (IF g.periodic[1] THEN 1 ELSE 0)>>

\* run: parameter serialization, dimension 3
param_3d(g) ==
  <<IF g.arena = "circular" THEN 0 ELSE 1,
    g.arena_shape[1] \div 2,
    g.arena_shape[2] \div 2,
    g.arena_shape[3] \div 2,
    IF g.arena = "circular" THEN (IF g.periodic THEN 1 ELSE 0)
    ELSE (IF g.periodic[1] THEN 1 ELSE 0),
    IF g.arena = "circular" THEN (IF g.periodic THEN 1 ELSE 0)
    ELSE (IF g.periodic[2] THEN 1 ELSE 0),
    IF g.arena = "circular" THEN (IF g.periodic THEN 1 ELSE 0)
    ELSE (IF g.periodic[3] THEN 1 ELSE 0)>>

\* run: match self.geom.dimension
param(g) ==
  CASE g.dimension = 1 -> param_1d(g)
    [] g.dimension = 2 -> param_2d(g)
    [] g.dimension = 3 -> param_3d(g)

\* a row of never-written memory for an array of rows of dim components
garbage_row(row, dim) == [d \in 1..dim |-> IF d <= Len(row) THEN row[d] ELSE 0]

\* run, CUDA preparation and parameter serialization, up to the main loop or
\* to the hand-over to the animation clock.  The model follows the runs of the
\* engines whose type, position and velocity arrays have N_agents rows.
RunPrepare ==
  /\ pc \in {"setup", "again"}
  /\ agents.N_agents > 0
  /\ Len(agents.atype) = agents.N_agents
  /\ Len(agents.pos) = agents.N_agents
  /\ Len(agents.vel) = agents.N_agents
  /\ \E g \in GarbageChoices :
       cuda' = [blockDim |-> blockDim,
                gridDim  |-> (agents.N_agents + (blockDim - 1)) \div blockDim,
                rng      |-> create_xoroshiro128p_states(
                               blockDim * ((agents.N_agents + (blockDim - 1)) \div blockDim),
                               seed),
                atype    |-> agents.atype,
                p0       |-> agents.pos,
                v0       |-> agents.vel,
                noise    |-> agents.noise,
                group    |-> agents.group,
                p1       |-> ones(agents.N_agents, garbage_row(g.p, geom.dimension)),
                v1       |-> ones(agents.N_agents, garbage_row(g.v, geom.dimension)),
                param    |-> param(geom)]
  /\ shadow' = [shadow EXCEPT !.p0 = shadow.pos, !.v0 = shadow.vel,
                              !.p1 = ones(agents.N_agents, "uninit"),
                              !.v1 = ones(agents.N_agents, "uninit")]
  /\ hist' = [hist EXCEPT !.pos = agents.pos, !.vel = agents.vel,
                          !.setup = NoSetup]
  /\ i' = 0
  /\ pc' = IF animation = None THEN "loop" ELSE "clock"
  /\ UNCHANGED <<geom, agents, steps, animation, kernel, probe>>

\* as LoopCondition, but the bound is inclusive
LoopCondition_inclusive(budget, k) == budget = NoBudget \/ k <= budget

\* run: the condition of the main loop
LoopCondition(budget, k) == budget = NoBudget \/ k < budget

\* step(k): the pair the kernel is given as p0, v0 (read) and as p1, v1
\* (written), and the pair copied to the host afterwards
step_source(k) == IF k % 2 # 0 THEN 0 ELSE 1
step_destination(k) == IF k % 2 # 0 THEN 1 ELSE 0
step_published(k) == IF k % 2 # 0 THEN 1 ELSE 0

\* step(i): the kernel is launched over gridDim blocks of blockDim lanes
Launch ==
  /\ pc = "loop"
  /\ LoopCondition(steps, i)
  /\ i < MaxSteps
  /\ kernel' = [src  |-> step_source(i),
                dst  |-> step_destination(i),
                done |-> {},
                idle |-> FALSE,
                da   |-> [l \in 0..(agents.N_agents - 1) |-> 0],
                pre  |-> cuda]
  /\ hist' = [hist EXCEPT !.dispatched = Append(@, i), !.finished = Append(@, {})]
  /\ pc' = "kernel"
  /\ UNCHANGED <<geom, agents, steps, animation, cuda, i, shadow, probe>>

\* how the values a lane writes came about: from written, defined inputs or not
LaneStatus(sh, c, l, src) ==
  LET sp == IF src = 0 THEN sh.p0 ELSE sh.p1
      sv == IF src = 0 THEN sh.v0 ELSE sh.v1
  IN  IF sp[l + 1] = "ok" /\ sv[l + 1] = "ok" /\ c.atype[l + 1] = 1
      THEN "ok" ELSE "tainted"

\* one lane of an agent runs the kernel
Lane(l) ==
  /\ pc = "kernel"
  /\ l \notin kernel.done
  /\ \E u \in (IF cuda.atype[l + 1] = 1 THEN {0} ELSE UndefAngles) :
       /\ cuda' = CUDA_step(cuda, l, kernel.src, kernel.dst, u)
       /\ kernel' = [kernel EXCEPT !.done = @ \cup {l}, !.da[l] = u]
  /\ shadow' =
       LET st == LaneStatus(shadow, cuda, l, kernel.src)
           sp == IF kernel.src = 0 THEN shadow.p0[l + 1] ELSE shadow.p1[l + 1]
       IN  IF geom.dimension = 2
           THEN IF kernel.dst = 0
                THEN [shadow EXCEPT !.p0[l + 1] = st, !.v0[l + 1] = st]
                ELSE [shadow EXCEPT !.p1[l + 1] = st, !.v1[l + 1] = st]
           ELSE IF cuda.atype[l + 1] # 0 THEN shadow
           ELSE IF kernel.dst = 0
                THEN [shadow EXCEPT !.p0[l + 1] = sp]
                ELSE [shadow EXCEPT !.p1[l + 1] = sp]
  /\ hist' = [hist EXCEPT !.finished[Len(hist.finished)] = @ \cup {l}]
  /\ UNCHANGED <<geom, agents, steps, animation, pc, i, probe>>

\* the lanes of the grid beyond the last agent run the kernel
IdleLanes ==
  /\ pc = "kernel"
  /\ ~kernel.idle
  /\ Lanes(cuda) > agents.N_agents
  /\ cuda' = RunLanes(cuda, agents.N_agents, Lanes(cuda), kernel.src, kernel.dst)
  /\ kernel' = [kernel EXCEPT !.idle = TRUE]
  /\ UNCHANGED <<geom, agents, steps, animation, pc, i, shadow, hist, probe>>

\* as AllLanesDone, but one returned lane is enough
AllLanesDone_any(kn, c, N) == kn.done # {}

\* every lane of the launch has returned
AllLanesDone(kn, c, N) ==
  /\ kn.done = 0..(N - 1)
  /\ (kn.idle \/ Lanes(c) = N)

\* step(i): cuda.synchronize() returns
Synchronize ==
  /\ pc = "kernel"
  /\ AllLanesDone(kernel, cuda, agents.N_agents)
  /\ pc' = "synced"
  /\ UNCHANGED <<geom, agents, steps, animation, cuda, i, kernel, shadow, hist, probe>>

\* step(i): copy_to_host into agents.pos and agents.vel; run: i += 1
Publish ==
  /\ pc = "synced"
  /\ agents' = [agents EXCEPT !.pos = BufP(cuda, step_published(i)),
                              !.vel = BufV(cuda, step_published(i))]
  /\ shadow' = [shadow EXCEPT
                  !.pos = IF step_published(i) = 0 THEN shadow.p0 ELSE shadow.p1,
                  !.vel = IF step_published(i) = 0 THEN shadow.v0 ELSE shadow.v1]
  /\ hist' = [hist EXCEPT
                !.published = @ + 1,
                !.trace = IF hist.run = 1
                          THEN Append(@, <<BufP(cuda, step_published(i)),
                                           BufV(cuda, step_published(i))>>)
                          ELSE @]
  /\ i' = i + 1
  /\ kernel' = NoKernel
  /\ pc' = "loop"
  /\ UNCHANGED <<geom, steps, animation, cuda, probe>>

\* run: the loop condition fails and run returns
LoopExit ==
  /\ pc = "loop"
  /\ ~LoopCondition(steps, i)
  /\ pc' = "done"
  /\ UNCHANGED <<geom, agents, steps, animation, cuda, i, kernel, shadow, hist, probe>>

RunNext ==
  \/ RunPrepare
  \/ Launch
  \/ \E l \in 0..(agents.N_agents - 1) : Lane(l)
  \/ IdleLanes
  \/ Synchronize
  \/ Publish
  \/ LoopExit

SetupNext == AddGroup \/ SetSteps \/ SetNoise

Next == SetupNext \/ RunNext

Spec == Init /\ [][Next]_vars

\* the steps of a run once it is prepared
LoopNext ==
  \/ Launch
  \/ \E l \in 0..(agents.N_agents - 1) : Lane(l)
  \/ IdleLanes
  \/ Synchronize
  \/ Publish
  \/ LoopExit

\* A second execution of the same script: the same geometry, agents and
\* budget, a fresh device context
Restart ==
  /\ pc = "done"
  /\ hist.run = 1
  /\ agents' = [agents EXCEPT !.pos = hist.pos, !.vel = hist.vel]
  /\ cuda' = NewCUDA
  /\ kernel' = NoKernel
  /\ shadow' = [NewShadow EXCEPT !.pos = ones(agents.N_agents, "ok"),
                                 !.vel = ones(agents.N_agents, "ok")]
  /\ hist' = [hist EXCEPT !.run = 2, !.published = 0, !.dispatched = <<>>,
                          !.finished = <<>>]
  /\ i' = 0
  /\ pc' = "again"
  /\ UNCHANGED <<geom, steps, animation, probe>>

NextRerun == Next \/ Restart

SpecRerun == Init /\ [][NextRerun]_vars

-----------------------------------------------------------------------------
\* Engines of any dimension set up by calls of add_group with any arguments.
\* A call that raises leaves the engine to its caller, who may go on with it.

\* Engine.__init__ with Geometry.__init__: a rectangular arena with the
\* default periodicity, or (dimensions 1 and 3) a circular one
InitSetup ==
  /\ \E dim \in DimensionChoices :
       \/ geom = [dimension |-> dim, arena |-> "rectangular",
                  arena_shape |-> [d \in 1..dim |-> 2000],
                  periodic |-> [d \in 1..dim |-> TRUE]]
       \/ /\ dim # 2
          /\ geom = [dimension |-> dim, arena |-> "circular",
                     arena_shape |-> [d \in 1..dim |-> 2000],
                     periodic |-> TRUE]
  /\ agents = NewAgents
  /\ steps = 1
  /\ animation = None
  /\ cuda = NewCUDA
  /\ pc = "setup"
  /\ i = 0
  /\ kernel = NoKernel
  /\ shadow = NewShadow
  /\ hist = NewHist
  /\ probe = NoProbe

\* the reads of lane l that fall outside their arrays: noise[i,1] when the
\* noise array has no row i, v0[i,1] when the rows have one component
OutOfBounds(c, l, src) ==
  \/ l + 1 > Len(c.noise)
  \/ Len(BufV(c, src)[l + 1]) < 2

\* a read outside an array ends the lane with a memory fault, which
\* cuda.synchronize() raises: run is over
LaneFault(l) ==
  /\ pc = "kernel"
  /\ l \notin kernel.done
  /\ OutOfBounds(cuda, l, kernel.src)
  /\ pc' = "fault"
  /\ UNCHANGED <<geom, agents, steps, animation, cuda, i, kernel, shadow, hist, probe>>

NextSetup ==
  \/ AddGroupCall
  \/ SetSteps
  \/ RunNext
  \/ \E l \in 0..(agents.N_agents - 1) : LaneFault(l)

SpecSetup == InitSetup /\ [][NextSetup]_vars

-----------------------------------------------------------------------------
\* A run driven by the animation clock

\* Engine.setup_animation, dimension 2
setup_animation ==
  /\ pc = "setup"
  /\ animation = None
  /\ geom.dimension = 2
  /\ animation' = "Animation2d"
  /\ UNCHANGED <<geom, agents, steps, cuda, pc, i, kernel, shadow, hist, probe>>

\* the step numbers the clock passes: the clock is not part of the engine,
\* which takes the number as it comes
ClockSteps == 0..MaxSteps

\* Animation2d.update(t) up to the launch: engine.step(t.step)
update ==
  /\ pc = "clock"
  /\ Len(hist.dispatched) < MaxUpdates
  /\ \E k \in ClockSteps :
       /\ i' = k
       /\ kernel' = [src  |-> step_source(k),
                     dst  |-> step_destination(k),
                     done |-> {},
                     idle |-> FALSE,
                     da   |-> [l \in 0..(agents.N_agents - 1) |-> 0],
                     pre  |-> cuda]
       /\ hist' = [hist EXCEPT !.dispatched = Append(@, k), !.finished = Append(@, {})]
  /\ pc' = "kernel"
  /\ UNCHANGED <<geom, agents, steps, animation, cuda, shadow, probe>>

\* engine.step(t.step) after the barrier: copy_to_host, and the return to
\* the clock through update_display
update_display ==
  /\ pc = "synced"
  /\ animation # None
  /\ agents' = [agents EXCEPT !.pos = BufP(cuda, step_published(i)),
                              !.vel = BufV(cuda, step_published(i))]
  /\ shadow' = [shadow EXCEPT
                  !.pos = IF step_published(i) = 0 THEN shadow.p0 ELSE shadow.p1,
                  !.vel = IF step_published(i) = 0 THEN shadow.v0 ELSE shadow.v1]
  /\ hist' = [hist EXCEPT !.published = @ + 1]
  /\ kernel' = NoKernel
  /\ pc' = "clock"
  /\ UNCHANGED <<geom, steps, animation, cuda, i, probe>>

NextClock ==
  \/ AddGroup
  \/ setup_animation
  \/ RunPrepare
  \/ update
  \/ \E l \in 0..(agents.N_agents - 1) : Lane(l)
  \/ IdleLanes
  \/ Synchronize
  \/ update_display

SpecClock == Init /\ [][NextClock]_vars

-----------------------------------------------------------------------------
\* A single call of assign_2d on arguments drawn from bounded sets

ProbeCoords == (0 - MaxCoord)..MaxCoord
ProbeSpeeds == (0 - MaxSpeed)..MaxSpeed

InitGeom ==
  /\ geom = [dimension |-> dimension, arena |-> "rectangular",
             arena_shape |-> <<2000, 2000>>, periodic |-> <<TRUE, TRUE>>]
  /\ agents = NewAgents
  /\ steps = 1
  /\ animation = None
  /\ cuda = NewCUDA
  /\ pc = "setup"
  /\ i = 0
  /\ kernel = NoKernel
  /\ shadow = NewShadow
  /\ hist = NewHist
  /\ \E x \in ProbeCoords, y \in ProbeCoords, vx \in ProbeSpeeds, vy \in ProbeSpeeds,
        RX \in 1..MaxHalfExtent, RY \in 1..MaxHalfExtent,
        perX \in {0, 1}, perY \in {0, 1} :
       probe = [args |-> [z0 |-> <<x - vx, y - vy>>, z1 |-> <<x, y>>, zv |-> <<vx, vy>>,
                          arena |-> 1, arena_X |-> RX, arena_Y |-> RY,
                          periodic_X |-> perX, periodic_Y |-> perY],
                out |-> <<>>]

\* the kernel's call of assign_2d, on the probe's arguments
Resolve ==
  /\ probe.out = <<>>
  /\ probe' = [probe EXCEPT !.out =
                 assign_2d(probe.args.z0, probe.args.z1, probe.args.zv,
                           probe.args.arena, probe.args.arena_X, probe.args.arena_Y,
                           probe.args.periodic_X, probe.args.periodic_Y)]
  /\ UNCHANGED <<geom, agents, steps, animation, cuda, pc, i, kernel, shadow, hist>>

NextGeom == Resolve

SpecGeom == InitGeom /\ [][NextGeom]_vars

-----------------------------------------------------------------------------
\* A single call of assign_2d in a circular arena

\* radii and velocities given to the call
CircRadii == {5, 10}
CircVelocities == {<<1, 0>>, <<0, 0 - 2>>, <<3, 4>>, <<0 - 4, 3>>}

\* Scenario B in hundredths: radius 1, old position (0.99, 0), velocity
\* (0.02, 0), reflexive
ScenarioB ==
  [z0 |-> <<99, 0>>, z1 |-> <<101, 0>>, zv |-> <<2, 0>>,
   arena |-> 0, arena_X |-> 100, arena_Y |-> 100,
   periodic_X |-> 0, periodic_Y |-> 0]

IsSquare(n) == n >= 0 /\ isqrt(n) * isqrt(n) = n
Whole(num, den) == den # 0 /\ num % den = 0

\* the arguments on which every root and quotient of the circular branch is a
\* whole number, so that the integer operators give the source's values
ExactCircular(a) ==
  LET R == a.arena_X
  IN  IF a.z1[1] * a.z1[1] + a.z1[2] * a.z1[2] <= R * R THEN TRUE
      ELSE IF a.periodic_X # 0
      THEN /\ IsSquare(a.z1[1] * a.z1[1] + a.z1[2] * a.z1[2])
           /\ Whole((2 * R - abs(a.z1)) * a.z1[1], abs(a.z1))
           /\ Whole((2 * R - abs(a.z1)) * a.z1[2], abs(a.z1))
      ELSE /\ a.zv # <<0, 0>>
           /\ IsSquare(a.zv[1] * a.zv[1] + a.zv[2] * a.zv[2])
           /\ LET th   == phase(a.zv)
                  num  == a.z0[2] * th.c - a.z0[1] * th.s
                  den  == th.n * R
                  phi  == plus(th, asin(num, den))
                  zc   == rect(R, phi)
                  dz   == <<zc[1] - a.z0[1], zc[2] - a.z0[2]>>
                  d    == abs(a.zv) - abs(dz)
                  out  == plus(pi, plus(plus(phi, phi), minus(th)))
                  turn == plus(pi, plus(plus(phi, phi), minus(plus(th, th))))
              IN  /\ IsSquare(den * den - num * num)
                  /\ Whole(R * phi.c, phi.n) /\ Whole(R * phi.s, phi.n)
                  /\ IsSquare(dz[1] * dz[1] + dz[2] * dz[2])
                  /\ Whole(d * out.c, out.n) /\ Whole(d * out.s, out.n)
                  /\ Whole(a.zv[1] * turn.c - a.zv[2] * turn.s, turn.n)
                  /\ Whole(a.zv[1] * turn.s + a.zv[2] * turn.c, turn.n)

CircCoords == (0 - MaxCircCoord)..MaxCircCoord

InitCirc ==
  /\ geom = [dimension |-> dimension, arena |-> "circular",
             arena_shape |-> <<2000, 2000>>, periodic |-> TRUE]
  /\ agents = NewAgents
  /\ steps = 1
  /\ animation = None
  /\ cuda = NewCUDA
  /\ pc = "setup"
  /\ i = 0
  /\ kernel = NoKernel
  /\ shadow = NewShadow
  /\ hist = NewHist
  /\ \E a \in {ScenarioB} \cup
              {[z0 |-> <<x - v[1], y - v[2]>>, z1 |-> <<x, y>>, zv |-> v,
                arena |-> 0, arena_X |-> R, arena_Y |-> R,
                periodic_X |-> per, periodic_Y |-> per] :
                 x \in CircCoords, y \in CircCoords, v \in CircVelocities,
                 R \in CircRadii, per \in {0, 1}} :
       /\ ExactCircular(a)
       /\ probe = [args |-> a, out |-> <<>>]

SpecCirc == InitCirc /\ [][NextGeom]_vars

-----------------------------------------------------------------------------
\* Claims

\* the status of the slots of the pair the launch in flight reads
SourceStatusP == IF kernel.src = 0 THEN shadow.p0 ELSE shadow.p1
SourceStatusV == IF kernel.src = 0 THEN shadow.v0 ELSE shadow.v1

\* C1: whenever a kernel is in flight, every slot of the pair it reads (its
\* source position and velocity arrays) has been written before, by the
\* upload or by an earlier step; no step reads a never-written slot.
C1_SourceWritten ==
  pc = "kernel" =>
    \A k \in 1..agents.N_agents :
      SourceStatusP[k] # "uninit" /\ SourceStatusV[k] # "uninit"

\* C2: from one published step to the next, the published position of every
\* Fixed agent (atype 0) stays what it was.
C2_FixedStay ==
  [][(hist.published > 0 /\ hist'.published = hist.published + 1) =>
       \A k \in 1..agents.N_agents :
         agents.atype[k] = 0 => agents'.pos[k] = agents.pos[k]]_vars

\* Scenario A: one Blind agent, half-extents (1, 1), X periodic, Y reflective,
\* initial position (0.999, 0), velocity (0.01, 0), zero noise, one step
ScenarioA ==
  /\ geom.arena = "rectangular"
  /\ geom.arena_shape = <<2000, 2000>>
  /\ geom.periodic = <<TRUE, FALSE>>
  /\ agents.N_agents = 1
  /\ agents.atype = <<1>>
  /\ agents.noise = <<<<0, 0>>>>
  /\ hist.pos = <<<<999, 0>>>>
  /\ hist.vel = <<<<10, 0>>>>
  /\ steps = 1

\* C3: Scenario A run to the end publishes position (-0.991, 0) and velocity
\* (0.01, 0).
C3_ScenarioA ==
  (ScenarioA /\ pc = "done") =>
    (agents.pos = <<<<0 - 991, 0>>>> /\ agents.vel = <<<<10, 0>>>>)

\* what a periodic axis of half-extent R makes of candidate coordinate c
Wrapped(c, R) == IF c > R THEN c - 2 * R ELSE IF c < 0 - R THEN c + 2 * R ELSE c

\* C4: on a periodic axis of half-extent R, assign_2d returns c - 2R for a
\* candidate c > R, c + 2R for c < -R and c otherwise, and returns the axis's
\* velocity component unchanged.
C4_PeriodicWrap ==
  probe.out # <<>> =>
    /\ probe.args.periodic_X # 0 =>
         /\ probe.out[1] = Wrapped(probe.args.z1[1], probe.args.arena_X)
         /\ probe.out[3] = probe.args.zv[1]
    /\ probe.args.periodic_Y # 0 =>
         /\ probe.out[2] = Wrapped(probe.args.z1[2], probe.args.arena_Y)
         /\ probe.out[4] = probe.args.zv[2]

\* a call that wrapped X from above and Y from below, with a moving agent
C4_Witness ==
  /\ probe.out # <<>>
  /\ probe.args.periodic_X # 0 /\ probe.args.z1[1] > probe.args.arena_X
  /\ probe.args.periodic_Y # 0 /\ probe.args.z1[2] < 0 - probe.args.arena_Y
  /\ probe.args.zv[1] # 0 /\ probe.args.zv[2] # 0
  /\ probe.out[1] = probe.args.z1[1] - 2 * probe.args.arena_X
  /\ probe.out[2] = probe.args.z1[2] + 2 * probe.args.arena_Y

\* what a reflective axis of half-extent R makes of candidate coordinate c
\* and velocity component v
Mirrored(c, v, R) ==
  IF c > R THEN <<2 * R - c, 0 - v>>
  ELSE IF c < 0 - R THEN <<0 - 2 * R - c, 0 - v>>
  ELSE <<c, v>>

Abs(x) == IF x < 0 THEN 0 - x ELSE x

\* C5: on a reflective axis of half-extent R, assign_2d returns (2R - c, -v)
\* for a candidate c > R, (-2R - c, -v) for c < -R and (c, v) otherwise; the
\* absolute value of the velocity component is kept.
C5_ReflectiveBounce ==
  probe.out # <<>> =>
    /\ probe.args.periodic_X = 0 =>
         /\ <<probe.out[1], probe.out[3]>> =
              Mirrored(probe.args.z1[1], probe.args.zv[1], probe.args.arena_X)
         /\ Abs(probe.out[3]) = Abs(probe.args.zv[1])
    /\ probe.args.periodic_Y = 0 =>
         /\ <<probe.out[2], probe.out[4]>> =
              Mirrored(probe.args.z1[2], probe.args.zv[2], probe.args.arena_Y)
         /\ Abs(probe.out[4]) = Abs(probe.args.zv[2])

\* a call that mirrored X at the upper bound and Y at the lower bound
C5_Witness ==
  /\ probe.out # <<>>
  /\ probe.args.periodic_X = 0 /\ probe.args.z1[1] > probe.args.arena_X
  /\ probe.args.periodic_Y = 0 /\ probe.args.z1[2] < 0 - probe.args.arena_Y
  /\ probe.args.zv[1] > 0 /\ probe.args.zv[2] < 0
  /\ probe.out[3] < 0 /\ probe.out[4] > 0

\* C9: the state published after a step holds, for every agent index, a
\* position and a velocity written during the step from defined inputs.
C9_PublishedDefined ==
  hist.published > 0 =>
    \A k \in 1..agents.N_agents :
      shadow.pos[k] = "ok" /\ shadow.vel[k] = "ok"

\* C6: a second execution from the same seed, initial agent state and budget
\* publishes, after every step, what the first execution published after
\* that step.
C6_Deterministic ==
  (hist.run = 2 /\ hist.published > 0) =>
    <<agents.pos, agents.vel>> = hist.trace[hist.published]

\* the device state pre with every entry that is not lane l's own replaced by
\* a filler: what lane l computes from it, it computes from its own entries
Isolated(pre, l) ==
  LET own(arr, fill) == [k \in 1..Len(arr) |-> IF k = l + 1 THEN arr[k] ELSE fill]
  IN  [pre EXCEPT !.atype = own(@, 1), !.noise = own(@, <<0, 0>>),
                  !.group = own(@, 0), !.rng = own(@, 0),
                  !.p0 = own(@, <<0, 0>>), !.v0 = own(@, <<0, 0>>),
                  !.p1 = own(@, <<0, 0>>), !.v1 = own(@, <<0, 0>>)]

\* C7: during a launch and at its barrier: the source pair and the shared
\* arrays are as they were at the launch; row l of the destination pair and
\* RNG state l are, once lane l has run, what the kernel computes from lane
\* l's own entries alone, and until then what they were at the launch; the
\* RNG states of the lanes beyond the last agent are untouched.  Hence the
\* destination at the barrier does not depend on the order of the lanes.
C7_LaneIsolation ==
  pc \in {"kernel", "synced"} =>
    LET pre == kernel.pre
        src == kernel.src
        dst == kernel.dst
    IN  /\ BufP(cuda, src) = BufP(pre, src)
        /\ BufV(cuda, src) = BufV(pre, src)
        /\ cuda.atype = pre.atype /\ cuda.noise = pre.noise
        /\ cuda.group = pre.group /\ cuda.param = pre.param
        /\ Len(BufP(cuda, dst)) = agents.N_agents
        /\ Len(BufV(cuda, dst)) = agents.N_agents
        /\ \A l \in 0..(agents.N_agents - 1) :
             LET to == IF l \in kernel.done
                       THEN CUDA_step(Isolated(pre, l), l, src, dst, kernel.da[l])
                       ELSE pre
             IN  /\ BufP(cuda, dst)[l + 1] = BufP(to, dst)[l + 1]
                 /\ BufV(cuda, dst)[l + 1] = BufV(to, dst)[l + 1]
                 /\ cuda.rng[l + 1] = to.rng[l + 1]
        /\ \A l \in agents.N_agents..(Lanes(cuda) - 1) :
             cuda.rng[l + 1] = pre.rng[l + 1]

\* two agents whose rows differ; lane 1 has run before lane 0, and the lanes
\* beyond the agents have run too
C7_Witness ==
  /\ pc = "kernel"
  /\ agents.N_agents = 2
  /\ kernel.done = {1}
  /\ kernel.idle
  /\ i = 1
  /\ BufP(cuda, kernel.src)[1] # BufP(cuda, kernel.src)[2]
  /\ BufP(cuda, kernel.dst)[2] # BufP(kernel.pre, kernel.dst)[2]

\* C8: (a) the barrier is passed only when every agent's lane of the launch
\* has returned, and each published step had all its lanes finished; (b) the
\* copy to the host takes the destination pair of the step; (c) a lane of a
\* launch runs only when every lane of the launch before has returned.
C8_Barrier ==
  /\ [](/\ pc = "synced" => kernel.done = 0..(agents.N_agents - 1)
        /\ \A k \in 1..Len(hist.finished) :
             /\ k <= hist.published => hist.finished[k] = 0..(agents.N_agents - 1)
             /\ (k > 1 /\ hist.finished[k] # {}) =>
                  hist.finished[k - 1] = 0..(agents.N_agents - 1))
  /\ [][hist'.published = hist.published + 1 =>
          /\ pc = "synced"
          /\ agents'.pos = BufP(cuda, kernel.dst)
          /\ agents'.vel = BufV(cuda, kernel.dst)]_vars

\* the second step of two agents has been published
C8_Witness ==
  /\ hist.published = 2
  /\ agents.N_agents = 2
  /\ pc = "loop"
  /\ agents.pos = cuda.p1
  /\ cuda.p1 # cuda.p0

\* what is left of the step in progress: the lanes that have not returned, the
\* barrier, the copy
StepRank ==
  CASE pc = "loop"   -> agents.N_agents + 3
    [] pc = "kernel" -> (agents.N_agents - Cardinality(kernel.done))
                        + (IF kernel.idle THEN 0 ELSE 1) + 1
    [] OTHER         -> 0

\* what is left of a run with a budget: a natural number that every step of
\* the run lowers
Remaining ==
  IF pc = "done" THEN 0 ELSE (steps - i) * (agents.N_agents + 4) + StepRank

\* C10: the steps dispatched are 0, 1, 2, ... in this order; a step is
\* launched only when every step before is published; run returns only
\* between steps, with exactly as many steps dispatched and published as the
\* budget says; a run without a budget never returns.  A prepared run with a
\* budget stops: it can always take a step until it has returned, and every
\* step it takes lowers Remaining, which never falls below 0.
C10_StepBudget ==
  /\ [](/\ \A k \in 1..Len(hist.dispatched) : hist.dispatched[k] = k - 1
        /\ pc \in {"kernel", "synced"} => Len(hist.dispatched) = hist.published + 1
        /\ pc \in {"loop", "done"} => Len(hist.dispatched) = hist.published
        /\ pc = "done" => /\ steps # NoBudget
                          /\ Len(hist.dispatched) = steps
                          /\ hist.published = steps
                          /\ kernel = NoKernel
        /\ steps = NoBudget => pc # "done"
        /\ (pc \in {"loop", "kernel", "synced"} /\ steps # NoBudget) =>
             ENABLED LoopNext)
  /\ [][(pc \in {"loop", "kernel", "synced"} /\ steps # NoBudget) =>
          (Remaining' < Remaining /\ Remaining' >= 0)]_vars

\* a run with a budget of two has returned after two published steps
C10_Witness ==
  /\ pc = "done"
  /\ steps = 2
  /\ hist.dispatched = <<0, 1>>
  /\ hist.published = 2

\* C16: Scenario B (circular reflexive arena of radius 1, old position
\* (0.99, 0), velocity (0.02, 0)): the candidate is outside, and assign_2d
\* returns position (0.99, 0), strictly inside the radius, and velocity
\* (-0.02, 0): the radial component reversed, the magnitude kept.
C16_ScenarioB ==
  (probe.args = ScenarioB /\ probe.out # <<>>) =>
    /\ probe.args.z1[1] * probe.args.z1[1] + probe.args.z1[2] * probe.args.z1[2]
         > probe.args.arena_X * probe.args.arena_X
    /\ probe.out = <<99, 0, 0 - 2, 0>>
    /\ probe.out[1] * probe.out[1] + probe.out[2] * probe.out[2]
         < probe.args.arena_X * probe.args.arena_X
    /\ probe.out[3] * probe.out[3] + probe.out[4] * probe.out[4]
         = probe.args.zv[1] * probe.args.zv[1] + probe.args.zv[2] * probe.args.zv[2]

\* Scenario B has been resolved
C16_Witness ==
  /\ probe.args = ScenarioB
  /\ probe.out # <<>>
  /\ probe.out[1] = 99

\* C17: in a circular periodic arena of radius R, a candidate z1 of radius
\* r > R comes back as the point of radius 2R - r on the opposite phase, that
\* is -z1*(2R - r)/r, with the velocity unchanged; a candidate of radius <= R
\* comes back unchanged with its velocity.
C17_CircularWrap ==
  (probe.out # <<>> /\ probe.args.arena = 0 /\ probe.args.periodic_X # 0) =>
    LET x == probe.args.z1[1]
        y == probe.args.z1[2]
        R == probe.args.arena_X
        r == isqrt(x * x + y * y)
    IN  /\ probe.out[3] = probe.args.zv[1]
        /\ probe.out[4] = probe.args.zv[2]
        /\ IF x * x + y * y > R * R
           THEN /\ r * r = x * x + y * y
                /\ r * probe.out[1] = 0 - (2 * R - r) * x
                /\ r * probe.out[2] = 0 - (2 * R - r) * y
                /\ probe.out[1] * probe.out[1] + probe.out[2] * probe.out[2]
                     = (2 * R - r) * (2 * R - r)
           ELSE probe.out[1] = x /\ probe.out[2] = y

\* a candidate off the axes, outside by less than the radius, has been wrapped
\* to the opposite side
C17_Witness ==
  /\ probe.out # <<>>
  /\ probe.args.arena = 0 /\ probe.args.periodic_X # 0
  /\ probe.args.z1 = <<9, 12>>
  /\ probe.args.arena_X = 10
  /\ probe.out[1] = 0 - 3 /\ probe.out[2] = 0 - 4

\* C19: while a launch is in flight its two pairs differ and the pair it
\* reads stays as it was at the launch; every launch after the first reads the
\* pair the step before wrote, which holds the state published last; the
\* first launch reads the uploaded initial state.
C19_Alternation ==
  /\ [](pc \in {"kernel", "synced"} =>
          /\ kernel.src # kernel.dst
          /\ BufP(cuda, kernel.src) = BufP(kernel.pre, kernel.src)
          /\ BufV(cuda, kernel.src) = BufV(kernel.pre, kernel.src))
  /\ [][(pc = "loop" /\ pc' = "kernel") =>
          IF hist.published = 0
          THEN /\ BufP(cuda, kernel'.src) = hist.pos
               /\ BufV(cuda, kernel'.src) = hist.vel
          ELSE /\ kernel'.src = step_destination(i - 1)
               /\ kernel'.dst = step_source(i - 1)
               /\ BufP(cuda, kernel'.src) = agents.pos
               /\ BufV(cuda, kernel'.src) = agents.vel]_vars

\* C20: in a rectangular arena, when every agent starts inside, every
\* coordinate of every published position is within the half-extent of its
\* axis.
C20_Confined ==
  LET inside(pos) ==
        \A k \in 1..Len(pos) : \A d \in 1..geom.dimension :
          Abs(pos[k][d]) <= geom.arena_shape[d] \div 2
  IN  (geom.arena = "rectangular" /\ hist.published > 0 /\ inside(hist.pos)) =>
        inside(agents.pos)

\* a step that is a call of add_group
IsCall == hist'.setup.calls = hist.setup.calls + 1

\* C11: an engine of dimension 1 or 3 never gets a kernel launched and never
\* has a state published; every add_group call on it raises an error.
C11_DimensionRejected ==
  geom.dimension # 2 =>
    /\ hist.setup.calls > 0 => hist.setup.raised # None
    /\ pc \notin {"kernel", "synced", "fault"}
    /\ hist.dispatched = <<>>
    /\ hist.published = 0

\* C12: at any time of the set-up, N_agents, the length of the type array,
\* the numbers of rows of the position, velocity and noise arrays and the
\* length of the group array are equal.
C12_ColumnLengths ==
  /\ Len(agents.atype) = agents.N_agents
  /\ Len(agents.pos) = agents.N_agents
  /\ Len(agents.vel) = agents.N_agents
  /\ Len(agents.noise) = agents.N_agents
  /\ Len(agents.group) = agents.N_agents

\* C13: a call of add_group with a type that is not in atypes raises an error
\* and leaves the agents (N_agents, every array, the group names and the
\* group count) as they were.
C13_UnknownTypeUntouched ==
  [][(IsCall /\ ~InSeq(atypes, lower(hist'.setup.gtype))) =>
       (hist'.setup.raised # None /\ agents' = agents)]_vars

\* an initial_condition whose explicit position or velocity rows have not
\* dim components
Mismatched(ic, dim) ==
  \/ ~Fits(ic.position.rows, dim)
  \/ ~Fits(ic.velocity.rows, dim)

\* C14: a call of add_group given an initial_condition whose explicit arrays
\* do not have the engine's dimension fails with the error of the mismatch
\* (the ValueError of the concatenation), and leaves every array of the
\* agents as it was.
C14_DimensionMismatch ==
  [][(/\ IsCall
      /\ "initial_condition" \in DOMAIN hist'.setup.kwargs
      /\ Mismatched(hist'.setup.kwargs["initial_condition"], geom.dimension)) =>
       /\ hist'.setup.raised = "ValueError"
       /\ hist'.setup.line \in {225, 226}
       /\ agents' = agents]_vars

\* C15: a call of add_group with a known type, given an initial_condition
\* with explicit N-row position and velocity arrays of the engine's
\* dimension, succeeds, and the rows appended to the position and velocity
\* arrays are the rows given, in the order given.
C15_ExplicitHonoured ==
  [][(/\ IsCall
      /\ InSeq(atypes, lower(hist'.setup.gtype))
      /\ "initial_condition" \in DOMAIN hist'.setup.kwargs
      /\ ~Mismatched(hist'.setup.kwargs["initial_condition"], geom.dimension)) =>
       /\ hist'.setup.raised = None
       /\ agents'.pos = agents.pos \o hist'.setup.kwargs["initial_condition"].position.rows
       /\ agents'.vel = agents.vel \o hist'.setup.kwargs["initial_condition"].velocity.rows]_vars

\* column arr of the agents keeps its rows where they are, and gets n rows
\* after them
Appended(old, new, n) ==
  /\ Len(new) = Len(old) + n
  /\ \A k \in 1..Len(old) : new[k] = old[k]

OtherAxis ==
  [c : {0 - MaxCoord, 0, MaxCoord}, v : {0 - MaxSpeed, 0, MaxSpeed},
   R : {1}, per : {0, 1}]

\* what its own rule makes of an axis: <<coordinate, velocity component>>
AxisRule(c, v, R, per) == IF per # 0 THEN <<Wrapped(c, R), v>> ELSE Mirrored(c, v, R)

\* C21: in the rectangular arena the coordinate and velocity component that
\* assign_2d returns for X are the ones a call with the same X arguments and
\* any other Y arguments returns, and likewise for Y; each axis gets the
\* result of its own rule alone, periodic or reflective, also when both
\* candidates are out of bounds in the same call.
C21_AxisIndependence ==
  probe.out # <<>> /\ probe.args.arena = 1 =>
    LET a == probe.args
    IN  /\ \A o \in OtherAxis :
              LET r == assign_2d(<<a.z0[1], o.c - o.v>>, <<a.z1[1], o.c>>,
                                 <<a.zv[1], o.v>>, 1, a.arena_X, o.R,
                                 a.periodic_X, o.per)
              IN  r[1] = probe.out[1] /\ r[3] = probe.out[3]
        /\ \A o \in OtherAxis :
              LET r == assign_2d(<<o.c - o.v, a.z0[2]>>, <<o.c, a.z1[2]>>,
                                 <<o.v, a.zv[2]>>, 1, o.R, a.arena_Y,
                                 o.per, a.periodic_Y)
              IN  r[2] = probe.out[2] /\ r[4] = probe.out[4]
        /\ <<probe.out[1], probe.out[3]>> =
              AxisRule(a.z1[1], a.zv[1], a.arena_X, a.periodic_X)
        /\ <<probe.out[2], probe.out[4]>> =
              AxisRule(a.z1[2], a.zv[2], a.arena_Y, a.periodic_Y)

\* a corner: X reflective and beyond the lower bound, Y periodic and beyond
\* the upper bound, the agent moving along both axes
C21_Witness ==
  /\ probe.out # <<>> /\ probe.args.arena = 1
  /\ probe.args.periodic_X = 0 /\ probe.args.z1[1] < 0 - probe.args.arena_X
  /\ probe.args.periodic_Y # 0 /\ probe.args.z1[2] > probe.args.arena_Y
  /\ probe.args.zv[1] < 0 /\ probe.args.zv[2] > 0
  /\ probe.out[1] = 0 - 2 * probe.args.arena_X - probe.args.z1[1]
  /\ probe.out[3] = 0 - probe.args.zv[1]
  /\ probe.out[2] = probe.args.z1[2] - 2 * probe.args.arena_Y
  /\ probe.out[4] = probe.args.zv[2]

\* the group name of the last add_group call: the name given, or the type
\* string as the caller wrote it
CallName(h) == IF "name" \in DOMAIN h.kwargs THEN h.kwargs["name"] ELSE h.gtype

\* the group bookkeeping of agents a is well formed
GroupsWellFormed(a) ==
  /\ \A j, k \in 1..Len(a.group_names) : a.group_names[j] = a.group_names[k] => j = k
  /\ a.N_groups = Len(a.group_names)
  /\ \A k \in 1..Len(a.group) : a.group[k] >= 0 /\ a.group[k] < a.N_groups

\* C22: the group-name list has no duplicates, N_groups is its length and
\* every agent's group id is an index into it; a successful add_group call
\* keeps the names and the ids there were, gives its N agents the id of the
\* name given (of the type string when no name was given), and adds the name
\* and increases N_groups by one exactly when the name is a new one.
C22_GroupBookkeeping ==
  /\ [](GroupsWellFormed(agents))
  /\ [][IsCall /\ hist'.setup.raised = None =>
          LET gname == CallName(hist'.setup)
              known == InSeq(agents.group_names, gname)
              new   == agents'.group
          IN  /\ Len(new) = Len(agents.group) + hist'.setup.N
              /\ \A k \in 1..Len(agents.group) : new[k] = agents.group[k]
              /\ \A k \in 1..Len(agents.group_names) :
                    agents'.group_names[k] = agents.group_names[k]
              /\ \A k \in (Len(agents.group) + 1)..Len(new) :
                    /\ new[k] + 1 \in 1..Len(agents'.group_names)
                    /\ agents'.group_names[new[k] + 1] = gname
              /\ known => /\ agents'.N_groups = agents.N_groups
                          /\ agents'.group_names = agents.group_names
              /\ ~known => /\ agents'.N_groups = agents.N_groups + 1
                           /\ agents'.group_names = Append(agents.group_names, gname)
       ]_vars

\* a second call, of another type, that gave the name of the first call's
\* group: its agent has the first group's id and there is still one group
C22_Witness ==
  /\ hist.setup.calls = 2 /\ hist.setup.raised = None
  /\ hist.setup.gtype = "Fixed" /\ CallName(hist.setup) = "blind"
  /\ agents.atype = <<1, 0>>
  /\ agents.group_names = <<"blind">> /\ agents.N_groups = 1
  /\ agents.group = <<0, 0>>

\* C23: whatever step numbers the calls step(i1), step(i2), ... are given,
\* the pair a call reads is the pair the call before it wrote.
C23_RolesFlip ==
  pc = "kernel" /\ Len(hist.dispatched) >= 2 =>
    kernel.src = step_destination(hist.dispatched[Len(hist.dispatched) - 1])

====
